---- MODULE Spec2Model ----
(***************************************************************************)
(* coding-cli: the explain, edit and fix commands.                         *)
(*                                                                         *)
(* edit (src/unnamed/part_002) and fix (src/src/commands/fix.ts) are       *)
(* workflows of event handlers over a shared session state; explain        *)
(* (src/unnamed/part_001) is a straight call sequence.  Strings are        *)
(* sequences of tokens: a path is a sequence of characters, a content is   *)
(* a sequence of UTF-16 code units, a prompt is the concatenation of its   *)
(* parts.                                                                  *)
(***************************************************************************)
EXTENDS Integers, Sequences, FiniteSets, TLC

(***************************************************************************)
(* Bounds of the model.                                                    *)
(***************************************************************************)
MaxPathLen == 3
MaxContentLen == 2
RequestCap == 5

(***************************************************************************)
(* Strings.                                                                *)
(***************************************************************************)
\* what a path is made of: a letter, the dot, the slash, and the text that
\* edit inserts, which a path may already contain
PathChars == {"a", ".", "/", "_edited"}

\* UTF-16 code units: a BMP character, a high surrogate, a low surrogate
CodeUnits == {"x", "HI", "LO"}

RECURSIVE SeqsUpTo(_, _)
SeqsUpTo(S, n) ==
    IF n = 0 THEN {<< >>}
    ELSE LET shorter == SeqsUpTo(S, n - 1)
         IN  shorter \cup {Append(s, c) : s \in shorter, c \in S}

Last(s) == s[Len(s)]

Front(s) == SubSeq(s, 1, Len(s) - 1)

IsPrefix(p, s) == Len(p) <= Len(s) /\ SubSeq(s, 1, Len(p)) = p

\* `part` occurs in `text` as a contiguous run of tokens
Contains(text, part) ==
    \E i \in 0..(Len(text) - Len(part)) : SubSeq(text, i + 1, i + Len(part)) = part

\* String.prototype.split with a one-character separator
RECURSIVE Split(_, _)
Split(s, sep) ==
    IF \A i \in 1..Len(s) : s[i] # sep THEN << s >>
    ELSE LET i == CHOOSE k \in 1..Len(s) :
                      s[k] = sep /\ \A j \in 1..(k - 1) : s[j] # sep
         IN  << SubSeq(s, 1, i - 1) >> \o Split(SubSeq(s, i + 1, Len(s)), sep)

\* Array.prototype.join
RECURSIVE Join(_, _)
Join(parts, sep) ==
    IF Len(parts) = 0 THEN << >>
    ELSE IF Len(parts) = 1 THEN parts[1]
    ELSE parts[1] \o << sep >> \o Join(Tail(parts), sep)

(***************************************************************************)
(* The 'utf-8' encoding of writeFile and the 'utf8' decoding of readFile.  *)
(* A surrogate pair is one 4-byte sequence; a surrogate without its        *)
(* partner is encoded as U+FFFD (EF BF BD).                                *)
(***************************************************************************)
\* mutant of Utf8Encode: a one-byte encoding ('latin1'), the low byte of each unit
RECURSIVE Latin1Encode(_)
Latin1Encode(s) ==
    IF Len(s) = 0 THEN << >>
    ELSE (IF s[1] \in {"HI", "LO"} THEN << "00" >>
          ELSE IF s[1] = "FFFD" THEN << "FD" >>
          ELSE << s[1] >>) \o Latin1Encode(Tail(s))

RECURSIVE Utf8Encode(_)
Utf8Encode(s) ==
    IF Len(s) = 0 THEN << >>
    ELSE IF s[1] = "HI" /\ Len(s) >= 2 /\ s[2] = "LO"
         THEN << "F0", "90", "80", "80" >> \o Utf8Encode(SubSeq(s, 3, Len(s)))
    ELSE IF s[1] \in {"HI", "LO"}
         THEN << "EF", "BF", "BD" >> \o Utf8Encode(Tail(s))
    ELSE IF s[1] = "FFFD"
         THEN << "EF", "BF", "BD" >> \o Utf8Encode(Tail(s))
    ELSE << s[1] >> \o Utf8Encode(Tail(s))

RECURSIVE Utf8Decode(_)
Utf8Decode(b) ==
    IF Len(b) = 0 THEN << >>
    ELSE IF IsPrefix(<< "F0", "90", "80", "80" >>, b)
         THEN << "HI", "LO" >> \o Utf8Decode(SubSeq(b, 5, Len(b)))
    ELSE IF IsPrefix(<< "EF", "BF", "BD" >>, b)
         THEN << "FFFD" >> \o Utf8Decode(SubSeq(b, 4, Len(b)))
    ELSE IF b[1] \in {"F0", "90", "80", "EF", "BF", "BD"}
         THEN << "FFFD" >> \o Utf8Decode(Tail(b))
    ELSE << b[1] >> \o Utf8Decode(Tail(b))

(***************************************************************************)
(* writeTextFile's derivation of the output path.                          *)
(***************************************************************************)
\* "_edited" in edit, "_fixed" in fix, "_test" in the copy the tests call
Suffix(f) ==
    IF f = "fix" THEN "_fixed" ELSE IF f = "test" THEN "_test" ELSE "_edited"

\* mutant of DerivePath: the file is written in place
DerivePathInPlace(filePath, f) == filePath

DerivePath(filePath, f) ==
    LET parts     == Split(filePath, ".")
        popped    == Last(parts)
        extension == IF popped = << >> THEN << >> ELSE popped
        flName    == Join(Front(parts), ".")
    IN  flName \o << Suffix(f), "." >> \o extension

(***************************************************************************)
(* JSON values and the zod schemas.  A JSON value is a record tagged with  *)
(* its type; a schema maps each field to the type it demands.              *)
(***************************************************************************)
JStr(s) == [type |-> "string", str |-> s]

JBool(b) == [type |-> "boolean", bool |-> b]

JNull == [type |-> "null"]

JArr(items) == [type |-> "array", items |-> items]

JObj(fields) == [type |-> "object", fields |-> fields]

CODE_SCHEMA == [code_content |-> "string"]

JUDGING_SCHEMA == [pass |-> "boolean", feedback |-> "string"]

ERROR_SCHEMA == [error_explanation |-> "string", proposed_fix |-> "string"]

FIX_SCHEMA == [fixed_content |-> "string"]

SCHEMA ==
    [code_overview |-> "string", focal_points |-> "stringArray",
     core_concepts_to_learn |-> "stringArray", extra_information |-> "string"]

\* the schema a name stands for
SchemaNamed(responseFormat) ==
    CASE responseFormat = "CODE_SCHEMA" -> CODE_SCHEMA
      [] responseFormat = "FIX_SCHEMA" -> FIX_SCHEMA
      [] responseFormat = "ERROR_SCHEMA" -> ERROR_SCHEMA
      [] responseFormat = "JUDGING_SCHEMA" -> JUDGING_SCHEMA
      [] responseFormat = "SCHEMA" -> SCHEMA

\* mutant of FieldIssues: a boolean field is checked as a string
FieldIssuesAllStrings(schema, fields, k) ==
    IF k \notin DOMAIN fields THEN {<< k >>}
    ELSE IF schema[k] = "stringArray"
         THEN IF fields[k].type = "array" THEN {} ELSE {<< k >>}
    ELSE IF fields[k].type = "string" THEN {} ELSE {<< k >>}

\* the issues zod reports for field k of an object: a set of paths
FieldIssues(schema, fields, k) ==
    IF k \notin DOMAIN fields THEN {<< k >>}
    ELSE LET v == fields[k]
         IN  CASE schema[k] = "string" ->
                    IF v.type = "string" THEN {} ELSE {<< k >>}
               [] schema[k] = "boolean" ->
                    IF v.type = "boolean" THEN {} ELSE {<< k >>}
               [] schema[k] = "stringArray" ->
                    IF v.type # "array" THEN {<< k >>}
                    ELSE {<< k, i >> : i \in {j \in 1..Len(v.items) :
                                                 v.items[j].type # "string"}}

\* the JavaScript value of a JSON value that has the demanded type
JsValue(v) ==
    CASE v.type = "string" -> v.str
      [] v.type = "boolean" -> v.bool
      [] v.type = "array" -> [i \in 1..Len(v.items) |-> v.items[i].str]

\* z.object(...).parse: the issues, and the parsed data (unknown keys are
\* stripped) when there is none
ZodIssues(schema, value) ==
    IF value.type # "object" THEN {<< >>}
    ELSE UNION {FieldIssues(schema, value.fields, k) : k \in DOMAIN schema}

ZodData(schema, value) == [k \in DOMAIN schema |-> JsValue(value.fields[k])]

(***************************************************************************)
(* What a chat call can produce: it throws, or it returns a message whose  *)
(* content is not JSON, or is JSON of any shape.                           *)
(***************************************************************************)
Threw == [kind |-> "throw"]

NotJson == [kind |-> "message", json |-> FALSE]

Json(v) == [kind |-> "message", json |-> TRUE, value |-> v]

\* JSON.parse(...) followed by <schema>.parse(...) returns, without throwing
Parses(schema, r) ==
    /\ r.kind = "message"
    /\ r.json
    /\ ZodIssues(schema, r.value) = {}

(***************************************************************************)
(* picocolors: a formatter wraps its argument in escape codes when the     *)
(* terminal supports colours and returns it unchanged otherwise.           *)
(***************************************************************************)
bold(on, s) == IF on THEN << "ESC[1m" >> \o s \o << "ESC[22m" >> ELSE s

green(on, s) == IF on THEN << "ESC[32m" >> \o s \o << "ESC[39m" >> ELSE s

(***************************************************************************)
(* The inputs the model draws from.                                        *)
(***************************************************************************)
Paths == SeqsUpTo(PathChars, MaxPathLen) \ {<< >>}

Contents == SeqsUpTo(CodeUnits, MaxContentLen)

\* the file paths given to a run of a command
RunPaths == {<< "a", ".", "a" >>, << "a" >>}

\* what the generating model answers as code, what the judge answers as feedback
GenContents == {<< "x" >>, << "HI" >>}

Feedbacks == {<< "fb1" >>, << "fb2" >>}

UserLanguage == << "ts" >>

UserFeature == << "feat" >>

UserDetails == << "det" >>

FileBytes == << "o", "l", "d" >>

WriteErrors == {<< "EACCES" >>}

\* the answers to a request for an object with the one string field `field`
ContentResponses(field) ==
    {Threw, NotJson, Json(JNull),
     Json(JObj([other |-> JStr(<< "x" >>)])),
     Json(JObj([f \in {field} |-> JBool(TRUE)]))}
    \cup {Json(JObj([f \in {field} |-> JStr(c)])) : c \in GenContents}

JudgeResponses ==
    {Threw, NotJson,
     Json(JObj([pass |-> JBool(TRUE)])),
     Json(JObj([pass |-> JStr(<< "x" >>), feedback |-> JStr(<< "fb1" >>)]))}
    \cup {Json(JObj([pass |-> JBool(TRUE), feedback |-> JStr(<< "ok" >>)]))}
    \cup {Json(JObj([pass |-> JBool(FALSE), feedback |-> JStr(fb)])) : fb \in Feedbacks}

ErrorResponses ==
    {Threw, NotJson,
     Json(JObj([error_explanation |-> JStr(<< "why" >>)])),
     Json(JObj([error_explanation |-> JStr(<< "why" >>),
                proposed_fix |-> JStr(<< "how" >>),
                other |-> JNull]))}

ExplainResponses ==
    LET full(fp) == [code_overview |-> JStr(<< "ov" >>), focal_points |-> fp,
                     core_concepts_to_learn |-> JArr(<< JStr(<< "c1" >>) >>),
                     extra_information |-> JStr(<< "ex" >>)]
    IN  {Threw, NotJson, Json(JNull),
         Json(JObj([code_overview |-> JStr(<< "ov" >>)])),
         Json(JObj(full(JArr(<< JStr(<< "p1" >>), JStr(<< "p2" >>) >>)))),
         Json(JObj(full(JArr(<< JBool(TRUE), JNull >>)))),
         Json(JObj(full(JStr(<< "p1" >>))))}

(***************************************************************************)
(* State.                                                                  *)
(***************************************************************************)
VARIABLES
    flow,              \* the command: "explain", "edit" or "fix"
    harness,           \* TRUE when the command's file functions are called directly
    input,             \* the arguments of the run, or of the direct call
    isColorSupported,  \* picocolors' view of the terminal
    fs,                \* the files: path -> bytes
    state,             \* the workflow's session state (createStatefulMiddleware)
    queue,             \* the events awaiting their handlers, oldest first
    stream,            \* the events runWorkflow's loop has yet to read
    iteration,         \* runWorkflow's round counter
    pc,                \* where the run, or the direct call, stands
    calls,             \* every chat, readFile and writeFile request made, in order
    logged,            \* what was printed through logger
    returned           \* what the direct calls returned

vars ==
    << flow, harness, input, isColorSupported, fs, state, queue, stream,
       iteration, pc, calls, logged, returned >>

NoEvent == [type |-> "none"]

Event(type, data) == [type |-> type, data |-> data]

\* the event whose handler runs next
pending == IF queue = << >> THEN NoEvent ELSE Head(queue)

\* createStatefulMiddleware's initial state, edit
EditInitialState ==
    [generatedContent |-> << >>, filePath |-> << >>, codeLanguage |-> << >>,
     feature |-> << >>, implementationDetails |-> << >>,
     numIterations |-> 0, maxIterations |-> 3]

\* createStatefulMiddleware's initial state, fix
FixInitialState ==
    [generatedContent |-> << >>, filePath |-> << >>, fileContent |-> << >>,
     codeLanguage |-> << >>, error |-> << >>, errorDetails |-> << >>,
     numIterations |-> 0, maxIterations |-> 3]

(***************************************************************************)
(* The file functions of edit and fix.                                     *)
(***************************************************************************)
\* readFile(filePath, 'utf8'): the decoded bytes, or a throw (no such file,
\* or any other error of the file system)
ReadOutcomes(files, filePath) ==
    {[threw |-> TRUE]}
    \cup (IF filePath \in DOMAIN files
          THEN {[threw |-> FALSE, content |-> Utf8Decode(files[filePath])]}
          ELSE {})

\* writeFile(flPath, content, 'utf-8') when it succeeds
WriteFile(files, flPath, content) ==
    [q \in DOMAIN files \cup {flPath} |->
        IF q = flPath THEN Utf8Encode(content) ELSE files[q]]

WriteOutcomes == {[ok |-> TRUE]} \cup {[ok |-> FALSE, error |-> e] : e \in WriteErrors}

SuccessText(f) ==
    IF f = "fix" THEN << "Successfully fixed your file! Find the fixed version at: " >>
    ELSE << "Successfully edited your file! Find the edited version at: " >>

ErrorText == << "Error creating the edited file: " >>

\* the path as the success message shows it: green(bold(flPath)) in edit and
\* fix, flPath itself in the copy the tests call
ShownPath(f, color, flPath) ==
    IF f = "test" THEN flPath ELSE green(color, bold(color, flPath))

\* mutant of WriteTextFile: the error of writeFile is not caught
WriteTextFileUncaught(f, color, filePath, content, outcome) ==
    LET flPath == DerivePath(filePath, f)
    IN  IF outcome.ok
        THEN [threw |-> FALSE, wrote |-> TRUE, flPath |-> flPath,
              message |-> SuccessText(f) \o ShownPath(f, color, flPath)]
        ELSE [threw |-> TRUE, wrote |-> FALSE, flPath |-> flPath,
              message |-> << >>]

\* mutant of WriteTextFile: the message shows the path given, not the derived
WriteTextFileShowsInput(f, color, filePath, content, outcome) ==
    LET flPath == DerivePath(filePath, f)
    IN  IF outcome.ok
        THEN [threw |-> FALSE, wrote |-> TRUE, flPath |-> flPath,
              message |-> SuccessText(f) \o ShownPath(f, color, filePath)]
        ELSE [threw |-> FALSE, wrote |-> FALSE, flPath |-> flPath,
              message |-> ErrorText \o outcome.error]

\* writeTextFile: what it returns (or that it threw) for an outcome of writeFile
WriteTextFile(f, color, filePath, content, outcome) ==
    LET flPath == DerivePath(filePath, f)
    IN  IF outcome.ok
        THEN [threw |-> FALSE, wrote |-> TRUE, flPath |-> flPath,
              message |-> SuccessText(f) \o ShownPath(f, color, flPath)]
        ELSE [threw |-> FALSE, wrote |-> FALSE, flPath |-> flPath,
              message |-> ErrorText \o outcome.error]

\* the entries of `calls`: the request and what came back
ReadCall(filePath, outcome) ==
    [call |-> "readFile", path |-> filePath, threw |-> outcome.threw]

WriteCall(flPath, content, outcome) ==
    [call |-> "writeFile", path |-> flPath, content |-> content, ok |-> outcome.ok]

ChatCall(llm, system, user, responseFormat, answer) ==
    [call |-> "chat", llm |-> llm, system |-> system, user |-> user,
     responseFormat |-> responseFormat, answer |-> answer]

\* the code-generation requests made so far
GenerationCalls ==
    SelectSeq(calls, LAMBDA c :
        c.call = "chat" /\ c.responseFormat \in {"CODE_SCHEMA", "FIX_SCHEMA"})

\* the judge requests made so far
JudgeCalls ==
    SelectSeq(calls, LAMBDA c : c.call = "chat" /\ c.llm = "LLM_JUDGE")

(***************************************************************************)
(* The workflow machinery: a handler consumes the pending event and either *)
(* returns the next event, which is also delivered to the stream, or       *)
(* throws, after which no handler runs.                                    *)
(***************************************************************************)
\* mutant of Emit: the returned event is delivered twice
EmitTwice(e) ==
    /\ queue' = Tail(queue) \o << e, e >>
    /\ stream' = stream \o << e, e >>
    /\ pc' = pc

Emit(e) ==
    /\ queue' = Append(Tail(queue), e)
    /\ stream' = Append(stream, e)
    /\ pc' = pc

HandlerThrows ==
    /\ queue' = Tail(queue)
    /\ pc' = "crashed"
    /\ UNCHANGED stream

Handling(f, type) ==
    /\ flow = f
    /\ ~harness
    /\ pc = "running"
    /\ pending.type = type

\* mutant of Accepts: the fields are looked for, their types are not checked
AcceptsUntyped(schema, r) ==
    /\ r.kind = "message"
    /\ r.json
    /\ r.value.type = "object"
    /\ DOMAIN schema \subseteq DOMAIN r.value.fields

\* JSON.parse and <schema>.parse both return
Accepts(schema, r) == Parses(schema, r)

\* mutant of ExceedsMax: the cap is never found exceeded
ExceedsMaxNever(st) == FALSE

\* mutants of ExceedsMax: the cap one round late, the cap one round early
ExceedsMaxLate(st) == st.numIterations > st.maxIterations + 1

ExceedsMaxEarly(st) == st.numIterations >= st.maxIterations

\* state.numIterations > state.maxIterations
ExceedsMax(st) == st.numIterations > st.maxIterations

(***************************************************************************)
(* edit: the handlers of editFlow.                                         *)
(***************************************************************************)
EditGenerationSystem(d) ==
    << "You are an expert " >> \o d.codeLanguage
        \o << " programmer. Your task is to generate high-quality code" >>

EditGenerationUser(d, fileContent) ==
    << "I am working as a " >> \o d.codeLanguage
        \o << " developer and I would like to edit " >> \o d.filePath
        \o << " with this feature: " >> \o d.feature
        \o << "; following these implementation details: " >> \o d.implementationDetails
        \o << ". This is the content of the file: " >> \o fileContent
        \o << ". Please generate the edited code." >>

\* mutant of EditStartState: the round is not counted
EditStartStateUncounted(st, d, schemaResponse) ==
    [st EXCEPT !.filePath = d.filePath,
               !.codeLanguage = d.codeLanguage,
               !.generatedContent = schemaResponse.code_content,
               !.feature = d.feature,
               !.implementationDetails = d.implementationDetails]

\* mutant of EditStartState: the generated content is not stored
EditStartStateStaleContent(st, d, schemaResponse) ==
    [st EXCEPT !.numIterations = @ + 1,
               !.filePath = d.filePath,
               !.codeLanguage = d.codeLanguage,
               !.feature = d.feature,
               !.implementationDetails = d.implementationDetails]

\* the state after the assignments of the startEvent handler
EditStartState(st, d, schemaResponse) ==
    [st EXCEPT !.numIterations = @ + 1,
               !.filePath = d.filePath,
               !.codeLanguage = d.codeLanguage,
               !.generatedContent = schemaResponse.code_content,
               !.feature = d.feature,
               !.implementationDetails = d.implementationDetails]

\* the event the startEvent handler returns
EditStartReturn(st, schemaResponse) ==
    IF ExceedsMax(st)
    THEN Event("writingEvent", [content |-> schemaResponse.code_content])
    ELSE Event("generationEvent", [generatedContent |-> schemaResponse.code_content])

\* mutant of EditStart: a failed read is taken as an empty file
EditStartSwallowsRead ==
    /\ Handling("edit", "startEvent")
    /\ Len(GenerationCalls) < RequestCap
    /\ \E rd \in ReadOutcomes(fs, pending.data.filePath) :
         \E r \in ContentResponses("code_content") :
           LET d       == pending.data
               content == IF rd.threw THEN << >> ELSE rd.content
           IN  /\ calls' = calls \o << ReadCall(d.filePath, rd),
                      ChatCall("LLM", EditGenerationSystem(d),
                               EditGenerationUser(d, content), "CODE_SCHEMA", r) >>
               /\ IF Accepts(CODE_SCHEMA, r)
                  THEN LET schemaResponse == ZodData(CODE_SCHEMA, r.value)
                           st == EditStartState(state, d, schemaResponse)
                       IN  /\ state' = st
                           /\ Emit(EditStartReturn(st, schemaResponse))
                  ELSE /\ HandlerThrows
                       /\ UNCHANGED state
    /\ UNCHANGED << flow, harness, input, isColorSupported, fs, iteration, logged, returned >>

EditStart ==
    /\ Handling("edit", "startEvent")
    /\ Len(GenerationCalls) < RequestCap
    /\ \E rd \in ReadOutcomes(fs, pending.data.filePath) :
         LET d    == pending.data
             read == ReadCall(d.filePath, rd)
         IN  IF rd.threw
             THEN /\ calls' = Append(calls, read)
                  /\ HandlerThrows
                  /\ UNCHANGED state
             ELSE \E r \in ContentResponses("code_content") :
                    /\ calls' = calls \o << read,
                           ChatCall("LLM", EditGenerationSystem(d),
                                    EditGenerationUser(d, rd.content), "CODE_SCHEMA", r) >>
                    /\ IF Accepts(CODE_SCHEMA, r)
                       THEN LET schemaResponse == ZodData(CODE_SCHEMA, r.value)
                                st == EditStartState(state, d, schemaResponse)
                            IN  /\ state' = st
                                /\ Emit(EditStartReturn(st, schemaResponse))
                       ELSE /\ HandlerThrows
                            /\ UNCHANGED state
    /\ UNCHANGED << flow, harness, input, isColorSupported, fs, iteration, logged, returned >>

EditJudgeSystem(st) ==
    << "You are an expert " >> \o st.codeLanguage
        \o << " programmer. Your task is to judge the quality of a code that should implement this feature: " >>
        \o st.feature \o << " with these implementation details: " >>
        \o st.implementationDetails

EditGeneration ==
    /\ Handling("edit", "generationEvent")
    /\ \E r \in JudgeResponses :
         /\ calls' = Append(calls,
                ChatCall("LLM_JUDGE", EditJudgeSystem(state),
                         pending.data.generatedContent, "JUDGING_SCHEMA", r))
         /\ IF Accepts(JUDGING_SCHEMA, r)
            THEN LET schemaResponse == ZodData(JUDGING_SCHEMA, r.value)
                 IN  Emit(Event("judgingEvent",
                                [pass |-> schemaResponse.pass,
                                 feedback |-> schemaResponse.feedback]))
            ELSE HandlerThrows
    /\ UNCHANGED << flow, harness, input, isColorSupported, fs, state, iteration,
                    logged, returned >>

\* mutant of EditRetryDetails: the feedback is left out
EditRetryDetailsNoFeedback(generatedContent, feedback) ==
    << "Your previous implementation: " >> \o generatedContent
        \o << " Did not pass the evaluation" >>

\* the implementation details of the next round
EditRetryDetails(generatedContent, feedback) ==
    << "Your previous implementation: " >> \o generatedContent
        \o << " Did not pass the evaluation, and this is the feedback on it: " >>
        \o feedback

\* mutant of EditJudgingReturn: the else branch returns no event
EditJudgingReturnNothing(st, data) ==
    IF data.pass
    THEN Event("writingEvent", [content |-> st.generatedContent])
    ELSE NoEvent

\* mutant of EditJudgingReturn: the test of the verdict is inverted
EditJudgingReturnInverted(st, data) ==
    IF ~data.pass
    THEN Event("writingEvent", [content |-> st.generatedContent])
    ELSE Event("startEvent",
               [filePath |-> st.filePath,
                feature |-> st.feature,
                implementationDetails |->
                    EditRetryDetails(st.generatedContent, data.feedback),
                codeLanguage |-> st.codeLanguage])

\* the event the judgingEvent handler returns
EditJudgingReturn(st, data) ==
    IF data.pass
    THEN Event("writingEvent", [content |-> st.generatedContent])
    ELSE Event("startEvent",
               [filePath |-> st.filePath,
                feature |-> st.feature,
                implementationDetails |->
                    EditRetryDetails(st.generatedContent, data.feedback),
                codeLanguage |-> st.codeLanguage])

EditJudging ==
    /\ Handling("edit", "judgingEvent")
    /\ Emit(EditJudgingReturn(state, pending.data))
    /\ UNCHANGED << flow, harness, input, isColorSupported, fs, state, iteration,
                    calls, logged, returned >>

\* mutant of Writing: the handler returns a writingEvent again
WritingRepeats(f) ==
    /\ Handling(f, "writingEvent")
    /\ Len(calls) < 2 * RequestCap + 4
    /\ \E w \in WriteOutcomes :
         LET res == WriteTextFile(f, isColorSupported, state.filePath,
                                  pending.data.content, w)
         IN  /\ calls' = Append(calls, WriteCall(res.flPath, pending.data.content, w))
             /\ fs' = IF res.wrote
                      THEN WriteFile(fs, res.flPath, pending.data.content)
                      ELSE fs
             /\ Emit(Event("writingEvent", [content |-> res.message]))
    /\ UNCHANGED << flow, harness, input, isColorSupported, state, iteration,
                    logged, returned >>

\* the writingEvent handler of edit and of fix
Writing(f) ==
    /\ Handling(f, "writingEvent")
    /\ \E w \in WriteOutcomes :
         LET res == WriteTextFile(f, isColorSupported, state.filePath,
                                  pending.data.content, w)
         IN  /\ calls' = Append(calls, WriteCall(res.flPath, pending.data.content, w))
             /\ fs' = IF res.wrote
                      THEN WriteFile(fs, res.flPath, pending.data.content)
                      ELSE fs
             /\ IF res.threw
                THEN HandlerThrows
                ELSE Emit(Event("resultEvent", [message |-> res.message]))
    /\ UNCHANGED << flow, harness, input, isColorSupported, state, iteration,
                    logged, returned >>

EditWriting == Writing("edit")

(***************************************************************************)
(* fix: the handlers of fixFlow.                                           *)
(***************************************************************************)
FixStartSystem(d) ==
    << "You are an expert " >> \o d.codeLanguage
        \o << " programmer. Your task is to provide an error explanation" >>

FixStartUser(d, fileContent) ==
    << "I am working as a " >> \o d.codeLanguage
        \o << " developer and I would like to fix " >> \o d.filePath
        \o << " because of this error: " >> \o d.error
        \o << ". These are some error details: " >> \o d.errorDetails
        \o << ". This is the content of the file: " >> \o fileContent
        \o << ". Please generate the edited code." >>

\* the state after the assignments of the startEvent handler
FixStartState(st, d, fileContent) ==
    [st EXCEPT !.filePath = d.filePath,
               !.codeLanguage = d.codeLanguage,
               !.error = d.error,
               !.errorDetails = d.errorDetails,
               !.fileContent = fileContent]

FixStart ==
    /\ Handling("fix", "startEvent")
    /\ \E rd \in ReadOutcomes(fs, pending.data.filePath) :
         LET d    == pending.data
             read == ReadCall(d.filePath, rd)
         IN  IF rd.threw
             THEN /\ calls' = Append(calls, read)
                  /\ HandlerThrows
                  /\ UNCHANGED state
             ELSE \E r \in ErrorResponses :
                    /\ calls' = calls \o << read,
                           ChatCall("LLM", FixStartSystem(d),
                                    FixStartUser(d, rd.content), "ERROR_SCHEMA", r) >>
                    /\ IF Accepts(ERROR_SCHEMA, r)
                       THEN LET schemaResponse == ZodData(ERROR_SCHEMA, r.value)
                            IN  /\ state' = FixStartState(state, d, rd.content)
                                /\ Emit(Event("errorEvaluationEvent",
                                      [error_explanation |-> schemaResponse.error_explanation,
                                       proposed_fix |-> schemaResponse.proposed_fix]))
                       ELSE /\ HandlerThrows
                            /\ UNCHANGED state
    /\ UNCHANGED << flow, harness, input, isColorSupported, fs, iteration, logged, returned >>

FixGenerationSystem(st) ==
    << "You are an expert " >> \o st.codeLanguage
        \o << " programmer. Your task is to generate high quality code that fixes errors" >>

FixGenerationUser(st, data) ==
    << "An error is occurring in " >> \o st.filePath
        \o << ", that is defined as follows: " >> \o st.fileContent
        \o << ". The error is " >> \o st.error
        \o << " and there are some details on it: " >> \o st.errorDetails
        \o << ". A potential error explanation is: " >> \o data.error_explanation
        \o << ". I am proposing the following fix: " >> \o data.proposed_fix
        \o << ". Could you implement it?" >>

\* mutant of FixCountIteration: the content of the last round is dropped too
FixCountIterationAndClear(st) ==
    [st EXCEPT !.numIterations = @ + 1, !.generatedContent = << >>]

\* state.numIterations++, before the request is made
FixCountIteration(st) == [st EXCEPT !.numIterations = @ + 1]

\* the event the errorEvaluationEvent handler returns
FixErrorEvaluationReturn(st, schemaResponse) ==
    IF ExceedsMax(st)
    THEN Event("writingEvent", [content |-> schemaResponse.fixed_content])
    ELSE Event("generationEvent", [generatedContent |-> schemaResponse.fixed_content])

FixErrorEvaluation ==
    /\ Handling("fix", "errorEvaluationEvent")
    /\ Len(GenerationCalls) < RequestCap
    /\ LET counted == FixCountIteration(state)
       IN  \E r \in ContentResponses("fixed_content") :
             /\ calls' = Append(calls,
                    ChatCall("LLM", FixGenerationSystem(counted),
                             FixGenerationUser(counted, pending.data), "FIX_SCHEMA", r))
             /\ IF Accepts(FIX_SCHEMA, r)
                THEN LET schemaResponse == ZodData(FIX_SCHEMA, r.value)
                         st == [counted EXCEPT
                                   !.generatedContent = schemaResponse.fixed_content]
                     IN  /\ state' = st
                         /\ Emit(FixErrorEvaluationReturn(st, schemaResponse))
                ELSE /\ state' = counted
                     /\ HandlerThrows
    /\ UNCHANGED << flow, harness, input, isColorSupported, fs, iteration, logged, returned >>

FixJudgeSystem(st) ==
    << "You are an expert " >> \o st.codeLanguage
        \o << " programmer. Your task is to judge the quality of a code that should fix this feature: " >>
        \o st.error \o << " with these error details: " >> \o st.errorDetails

FixGeneration ==
    /\ Handling("fix", "generationEvent")
    /\ \E r \in JudgeResponses :
         /\ calls' = Append(calls,
                ChatCall("LLM_JUDGE", FixJudgeSystem(state),
                         pending.data.generatedContent, "JUDGING_SCHEMA", r))
         /\ IF Accepts(JUDGING_SCHEMA, r)
            THEN LET schemaResponse == ZodData(JUDGING_SCHEMA, r.value)
                 IN  Emit(Event("judgingEvent",
                                [pass |-> schemaResponse.pass,
                                 feedback |-> schemaResponse.feedback]))
            ELSE HandlerThrows
    /\ UNCHANGED << flow, harness, input, isColorSupported, fs, state, iteration,
                    logged, returned >>

\* the error details of the next round
FixRetryDetails(generatedContent, feedback) ==
    << "Your previous fix: " >> \o generatedContent
        \o << " Did not pass the evaluation, and this is the feedback on it: " >>
        \o feedback

\* the event the judgingEvent handler returns
FixJudgingReturn(st, data) ==
    IF data.pass
    THEN Event("writingEvent", [content |-> st.generatedContent])
    ELSE Event("startEvent",
               [filePath |-> st.filePath,
                error |-> st.error,
                errorDetails |-> FixRetryDetails(st.generatedContent, data.feedback),
                codeLanguage |-> st.codeLanguage])

FixJudging ==
    /\ Handling("fix", "judgingEvent")
    /\ Emit(FixJudgingReturn(state, pending.data))
    /\ UNCHANGED << flow, harness, input, isColorSupported, fs, state, iteration,
                    calls, logged, returned >>

FixWriting == Writing("fix")

(***************************************************************************)
(* runWorkflow of edit and of fix: it sends the first startEvent, then     *)
(* reads the stream until the resultEvent.                                 *)
(***************************************************************************)
RunWorkflow ==
    /\ flow \in {"edit", "fix"}
    /\ ~harness
    /\ pc = "prompted"
    /\ LET e == Event("startEvent",
                  IF flow = "edit"
                  THEN [filePath |-> input.filePath, feature |-> input.feature,
                        implementationDetails |-> input.details,
                        codeLanguage |-> input.codeLanguage]
                  ELSE [filePath |-> input.filePath, error |-> input.feature,
                        errorDetails |-> input.details,
                        codeLanguage |-> input.codeLanguage])
       IN  /\ queue' = << e >>
           /\ stream' = << e >>
    /\ iteration' = 0
    /\ pc' = "running"
    /\ UNCHANGED << flow, harness, input, isColorSupported, fs, state, calls,
                    logged, returned >>

\* mutant of LoopLines: the round is printed as it was before the increment
LoopLinesBeforeIncrement(e, round) ==
    CASE e.type = "startEvent" -> << [line |-> "Started round", round |-> round - 1] >>
      [] e.type = "errorEvaluationEvent" ->
            << [line |-> "Your error might be explained as follows",
                text |-> e.data.error_explanation],
               [line |-> "I am proposing this fix", text |-> e.data.proposed_fix] >>
      [] e.type = "generationEvent" -> << [line |-> "generated"] >>
      [] e.type = "judgingEvent" ->
            IF e.data.pass
            THEN << [line |-> "Evaluation: PASS"] >>
            ELSE << [line |-> "Evaluation: FAIL"],
                    [line |-> "Reasons", text |-> e.data.feedback] >>
      [] e.type = "writingEvent" -> << [line |-> "Writing your file..."] >>
      [] e.type = "resultEvent" -> << [line |-> "result", text |-> e.data.message] >>
      [] OTHER -> << >>

\* what one turn of the loop prints for an event
LoopLines(e, round) ==
    CASE e.type = "startEvent" -> << [line |-> "Started round", round |-> round] >>
      [] e.type = "errorEvaluationEvent" ->
            << [line |-> "Your error might be explained as follows",
                text |-> e.data.error_explanation],
               [line |-> "I am proposing this fix", text |-> e.data.proposed_fix] >>
      [] e.type = "generationEvent" -> << [line |-> "generated"] >>
      [] e.type = "judgingEvent" ->
            IF e.data.pass
            THEN << [line |-> "Evaluation: PASS"] >>
            ELSE << [line |-> "Evaluation: FAIL"],
                    [line |-> "Reasons", text |-> e.data.feedback] >>
      [] e.type = "writingEvent" -> << [line |-> "Writing your file..."] >>
      [] e.type = "resultEvent" -> << [line |-> "result", text |-> e.data.message] >>
      [] OTHER -> << >>

StreamLoop ==
    /\ flow \in {"edit", "fix"}
    /\ ~harness
    /\ pc \in {"running", "crashed"}
    /\ stream # << >>
    /\ LET e     == Head(stream)
           round == IF e.type = "startEvent" THEN iteration + 1 ELSE iteration
       IN  /\ iteration' = round
           /\ logged' = logged \o LoopLines(e, round)
           /\ pc' = IF e.type = "resultEvent" THEN "done" ELSE pc
    /\ stream' = Tail(stream)
    /\ UNCHANGED << flow, harness, input, isColorSupported, fs, state, queue,
                    calls, returned >>

(***************************************************************************)
(* explain: handler calls explainCode, then parseAndRenderAnalysis.        *)
(***************************************************************************)
ExplainSystem(codeLanguage) ==
    << "You are an expert " >> \o codeLanguage
        \o << " programmer. Your task is to explain the code in a file" >>

ExplainUser(codeLanguage, filePath, level, problem, fileContent) ==
    << "I am at a " >> \o level \o << " level in " >> \o codeLanguage
        \o << " and I am struggling to understant this file: " >> \o filePath
        \o << " because I have the following problem: " >> \o problem
        \o << ". This is the content of the file: " >> \o fileContent
        \o << ". Please explain it to me." >>

explainCode ==
    /\ flow = "explain"
    /\ pc = "prompted"
    /\ \E rd \in ReadOutcomes(fs, input.filePath) :
         LET read == ReadCall(input.filePath, rd)
         IN  IF rd.threw
             THEN /\ calls' = Append(calls, read)
                  /\ pc' = "crashed"
                  /\ UNCHANGED returned
             ELSE \E r \in ExplainResponses :
                    /\ calls' = calls \o << read,
                           ChatCall("LLM", ExplainSystem(input.codeLanguage),
                                    ExplainUser(input.codeLanguage, input.filePath,
                                                input.level, input.problem, rd.content),
                                    "SCHEMA", r) >>
                    /\ IF r.kind = "throw"
                       THEN pc' = "crashed" /\ UNCHANGED returned
                       ELSE pc' = "explained" /\ returned' = r
    /\ UNCHANGED << flow, harness, input, isColorSupported, fs, state, queue,
                    stream, iteration, logged >>

\* mutant of renderAnalysis: the last section is not printed
renderAnalysisWithoutExtra(analysis) ==
    << [line |-> "Code Overview", text |-> analysis.code_overview],
       [line |-> "Focal Points", items |-> analysis.focal_points],
       [line |-> "Core Concepts to Learn", items |-> analysis.core_concepts_to_learn] >>

\* what renderAnalysis prints
renderAnalysis(analysis) ==
    << [line |-> "Code Overview", text |-> analysis.code_overview],
       [line |-> "Focal Points", items |-> analysis.focal_points],
       [line |-> "Core Concepts to Learn", items |-> analysis.core_concepts_to_learn],
       [line |-> "Extra Information", text |-> analysis.extra_information] >>

\* what parseAndRenderAnalysis prints for a message content
parseAndRenderAnalysis(messageContent) ==
    IF ~messageContent.json
    THEN << [line |-> "Failed to parse message content:"] >>
    ELSE IF ZodIssues(SCHEMA, messageContent.value) # {}
    THEN << [line |-> "Schema validation failed:"] >>
            \o [i \in 1..Cardinality(ZodIssues(SCHEMA, messageContent.value)) |->
                   [line |-> "issue"]]
    ELSE renderAnalysis(ZodData(SCHEMA, messageContent.value))

ExplainRender ==
    /\ flow = "explain"
    /\ pc = "explained"
    /\ logged' = logged \o parseAndRenderAnalysis(returned)
    /\ pc' = "done"
    /\ UNCHANGED << flow, harness, input, isColorSupported, fs, state, queue,
                    stream, iteration, calls, returned >>

(***************************************************************************)
(* The file functions called directly, as src/src/index.test.ts does:      *)
(* writeTextFile(p, c), then readTextFile of the path it derived.          *)
(***************************************************************************)
CallWriteTextFile ==
    /\ harness
    /\ pc = "call"
    /\ \E w \in WriteOutcomes :
         LET res == WriteTextFile(flow, isColorSupported, input.filePath,
                                  input.content, w)
         IN  /\ calls' = Append(calls, WriteCall(res.flPath, input.content, w))
             /\ fs' = IF res.wrote
                      THEN WriteFile(fs, res.flPath, input.content)
                      ELSE fs
             /\ returned' = [written |-> res]
             /\ pc' = IF res.threw THEN "crashed" ELSE "wrote"
    /\ UNCHANGED << flow, harness, input, isColorSupported, state, queue, stream,
                    iteration, logged >>

CallReadTextFile ==
    /\ harness
    /\ pc = "wrote"
    /\ \E rd \in ReadOutcomes(fs, returned.written.flPath) :
         /\ calls' = Append(calls, ReadCall(returned.written.flPath, rd))
         /\ returned' = [written |-> returned.written, read |-> rd]
         /\ pc' = IF rd.threw THEN "crashed" ELSE "read"
    /\ UNCHANGED << flow, harness, input, isColorSupported, fs, state, queue,
                    stream, iteration, logged >>

(***************************************************************************)
(* The schemas called directly, as the Zod Schemas Test Case does:         *)
(* <schema>.parse(JSON.parse(text)).                                       *)
(***************************************************************************)
SchemaNames == {"CODE_SCHEMA", "JUDGING_SCHEMA", "ERROR_SCHEMA", "FIX_SCHEMA"}

FieldValues == {JStr(<< "x" >>), JStr(<< >>), JBool(TRUE), JBool(FALSE), JNull}

\* the objects over the fields of a schema, with one field more, with one less
SchemaObjects(schema) ==
    LET exact == [DOMAIN schema -> FieldValues]
    IN  {JObj(f) : f \in exact}
        \cup {JObj(f @@ [other |-> JNull]) : f \in exact}
        \cup {JObj([j \in DOMAIN schema \ {k} |-> f[j]]) :
                 f \in exact, k \in DOMAIN schema}

SchemaParse ==
    /\ flow = "schema"
    /\ pc = "parse"
    /\ returned' = IF Parses(SchemaNamed(input.schema), Json(input.value))
                   THEN [threw |-> FALSE,
                         data |-> ZodData(SchemaNamed(input.schema), input.value)]
                   ELSE [threw |-> TRUE]
    /\ pc' = "parsed"
    /\ UNCHANGED << flow, harness, input, isColorSupported, fs, state, queue,
                    stream, iteration, calls, logged >>

(***************************************************************************)
(* The command line: yargs is given the command modules and dispatches on  *)
(* the first word of argv.                                                 *)
(***************************************************************************)
ExplainModule == [command |-> "explain", aliases |-> {"x"}]

EditModule == [command |-> "edit", aliases |-> {"e"}]

\* mutant of FixModule: the alias is not exported
FixModuleNoAlias == [command |-> "fix", aliases |-> {}]

FixModule == [command |-> "fix", aliases |-> {"f"}]

InfoModule == [command |-> "info", aliases |-> {"i"}]

\* the list the command line registers
commands == << ExplainModule, EditModule, FixModule, InfoModule >>

Words == {"explain", "x", "edit", "e", "fix", "f", "info", "i", "foo"}

Argvs == {<< >>} \cup {<< w >> : w \in Words} \cup {<< w, v >> : w \in Words, v \in Words}

DemandMessage == "You need at least one command before moving on"

\* what yargs does with argv: the handler of the first registered module whose
\* command or alias is the first word; the demandCommand failure when there is
\* no word; nothing when the word is no command
Dispatch(argv) ==
    LET hits == {i \in 1..Len(commands) :
                    /\ argv # << >>
                    /\ \/ commands[i].command = argv[1]
                       \/ argv[1] \in commands[i].aliases}
    IN  IF argv = << >>
        THEN [handler |-> "none", failed |-> TRUE, message |-> DemandMessage]
        ELSE IF hits = {}
        THEN [handler |-> "none", failed |-> FALSE, message |-> ""]
        ELSE [handler |-> commands[CHOOSE i \in hits : \A j \in hits : i <= j].command,
              failed |-> FALSE, message |-> ""]

run ==
    /\ flow = "cli"
    /\ pc = "shell"
    /\ LET d == Dispatch(input.argv)
       IN  /\ returned' = [handler |-> d.handler]
           /\ logged' = IF d.failed THEN Append(logged, [line |-> d.message]) ELSE logged
           /\ pc' = IF d.failed THEN "exited" ELSE "dispatched"
    /\ UNCHANGED << flow, harness, input, isColorSupported, fs, state, queue,
                    stream, iteration, calls >>

(***************************************************************************)
(* Specification.                                                          *)
(***************************************************************************)
InitRun ==
    /\ flow \in {"edit", "fix"}
    /\ harness = FALSE
    /\ input \in [filePath : RunPaths, feature : {UserFeature},
                  details : {UserDetails}, codeLanguage : {UserLanguage}]
    /\ fs = (input.filePath :> FileBytes)
    /\ state = IF flow = "edit" THEN EditInitialState ELSE FixInitialState
    /\ pc = "prompted"

InitExplain ==
    /\ flow = "explain"
    /\ harness = FALSE
    /\ input \in [filePath : RunPaths, level : {<< "beginner" >>},
                  problem : {UserDetails}, codeLanguage : {UserLanguage}]
    /\ fs = (input.filePath :> FileBytes)
    /\ state = << >>
    /\ pc = "prompted"

InitCall ==
    /\ flow \in {"edit", "fix", "test"}
    /\ harness = TRUE
    /\ input \in [filePath : Paths, content : {<< "x" >>}]
                  \cup [filePath : {<< "a", ".", "a" >>}, content : Contents]
    /\ fs = << >>
    /\ state = << >>
    /\ pc = "call"

InitSchema ==
    /\ flow = "schema"
    /\ harness = TRUE
    /\ \E name \in SchemaNames :
         input \in [schema : {name}, value : SchemaObjects(SchemaNamed(name))]
    /\ fs = << >>
    /\ state = << >>
    /\ pc = "parse"

InitCli ==
    /\ flow = "cli"
    /\ harness = FALSE
    /\ input \in [argv : Argvs]
    /\ fs = << >>
    /\ state = << >>
    /\ pc = "shell"

Init ==
    /\ isColorSupported \in BOOLEAN
    /\ queue = << >>
    /\ stream = << >>
    /\ iteration = 0
    /\ calls = << >>
    /\ logged = << >>
    /\ returned = << >>
    /\ (InitRun \/ InitExplain \/ InitCall \/ InitSchema \/ InitCli)

Handlers ==
    \/ EditStart
    \/ EditGeneration
    \/ EditJudging
    \/ EditWriting
    \/ FixStart
    \/ FixErrorEvaluation
    \/ FixGeneration
    \/ FixJudging
    \/ FixWriting

NextRun ==
    \/ RunWorkflow
    \/ StreamLoop
    \/ Handlers

Next ==
    \/ NextRun
    \/ explainCode
    \/ ExplainRender
    \/ CallWriteTextFile
    \/ CallReadTextFile
    \/ SchemaParse
    \/ run

Spec == Init /\ [][Next]_vars

\* The runs of edit and fix under the scheduling of the event loop: a handler
\* whose event is pending is run, and the loop reads what is delivered to it.
InitFair ==
    /\ Init
    /\ InitRun
    /\ ~isColorSupported
    /\ input.filePath = << "a", ".", "a" >>

FairSpec ==
    /\ InitFair
    /\ [][NextRun]_vars
    /\ WF_vars(RunWorkflow)
    /\ WF_vars(Handlers)
    /\ WF_vars(StreamLoop)

(***************************************************************************)
(* Properties.                                                             *)
(***************************************************************************)
N == 3

IsRun == ~harness /\ flow \in {"edit", "fix"}

IsGeneration(c) ==
    c.call = "chat" /\ c.responseFormat \in {"CODE_SCHEMA", "FIX_SCHEMA"}

IsJudge(c) == c.call = "chat" /\ c.llm = "LLM_JUDGE"

\* the position in `calls` of the last generation call, of the last judge
\* call; 0 when there is none
LastGeneration ==
    LET hits == {i \in 1..Len(calls) : IsGeneration(calls[i])}
    IN  IF hits = {} THEN 0 ELSE CHOOSE i \in hits : \A j \in hits : j <= i

LastJudge ==
    LET hits == {i \in 1..Len(calls) : IsJudge(calls[i])}
    IN  IF hits = {} THEN 0 ELSE CHOOSE i \in hits : \A j \in hits : j <= i

\* the verdict of a judge call: "pass", "fail", or "none" when the answer was rejected
Verdict(c) ==
    IF ~Parses(JUDGING_SCHEMA, c.answer) THEN "none"
    ELSE IF c.answer.value.fields.pass.bool THEN "pass" ELSE "fail"

\* the verdict on the content generated last, "none" when it has not been judged
VerdictOnLast ==
    IF LastJudge > LastGeneration
    THEN Verdict(calls[LastJudge])
    ELSE "none"

\* C1: in a run of edit or fix at most N + 1 = 4 code-generation requests are
\* made, whatever the judge answers.
C1_AtMostFourGenerations == IsRun => Len(GenerationCalls) <= N + 1

C1_Witness ==
    /\ IsRun
    /\ Len(GenerationCalls) = N + 1
    /\ pending.type = "writingEvent"

\* C2: when no call fails (no handler throws), every run of edit or fix
\* eventually delivers the resultEvent to runWorkflow's loop, which stops.
C2_RunTerminates == <>(pc = "crashed" \/ (pc = "done" /\ stream = << >>))

C2_Witness ==
    /\ IsRun
    /\ pc = "done"
    /\ Len(JudgeCalls) = N
    /\ \A i \in 1..Len(JudgeCalls) : Verdict(JudgeCalls[i]) = "fail"

\* C3: a writingEvent is emitted only after a pass verdict or with the iteration
\* counter above N, and the judgingEvent of a fail verdict is always followed by
\* a startEvent.
C3_WriteOnlyOnPassOrCap ==
    /\ [](IsRun /\ pending.type = "writingEvent"
            => VerdictOnLast = "pass" \/ state.numIterations > N)
    /\ [][(IsRun /\ pending.type = "judgingEvent" /\ ~pending.data.pass
             /\ pending' # pending) => pending'.type = "startEvent"]_vars

C3_Witness ==
    /\ IsRun
    /\ pending.type = "writingEvent"
    /\ Len(JudgeCalls) = 2
    /\ Verdict(JudgeCalls[1]) = "fail"
    /\ VerdictOnLast = "pass"

\* C4 as stated: every content that reaches the writer has received a verdict.
C4_EveryWrittenContentJudged ==
    IsRun /\ pending.type = "writingEvent"
        => /\ VerdictOnLast # "none"
           /\ calls[LastJudge].user = pending.data.content

\* C4 amended: a content reaches the writer either with a pass verdict on it, or
\* unjudged as the content generated in the round whose counter exceeds N; while
\* the counter is at most N every generated content is sent to the judge.
C4_WrittenContentJudgedOrCap ==
    /\ IsRun /\ pending.type = "writingEvent"
         => \/ /\ VerdictOnLast = "pass"
               /\ calls[LastJudge].user = pending.data.content
            \/ /\ VerdictOnLast = "none"
               /\ state.numIterations > N
               /\ pending.data.content = state.generatedContent
    /\ IsRun /\ pending.type = "generationEvent"
         => /\ state.numIterations <= N
            /\ pending.data.generatedContent = state.generatedContent

C4_Witness ==
    /\ IsRun
    /\ pending.type = "writingEvent"
    /\ VerdictOnLast = "none"
    /\ Len(JudgeCalls) = N


\* C5 as stated: every generation request after the first carries the details
\* the user gave and the feedback of every earlier failed judgment.
C5_AccumulatingContext ==
    IsRun =>
      \A i \in 1..Len(calls) :
        (IsGeneration(calls[i]) /\ \E j \in 1..(i - 1) : IsGeneration(calls[j]))
          => /\ Contains(calls[i].user, input.details)
             /\ \A j \in 1..(i - 1) :
                  (IsJudge(calls[j]) /\ Verdict(calls[j]) = "fail")
                    => Contains(calls[i].user, calls[j].answer.value.fields.feedback.str)

\* C6: after a fail verdict, the next generation request contains the feedback
\* of that verdict and the content that was rejected.
C6_RetryCarriesFeedbackAndContent ==
    IsRun =>
      \A i \in 1..Len(calls) : \A j \in 1..(i - 1) :
        (/\ IsGeneration(calls[i])
         /\ IsJudge(calls[j])
         /\ Verdict(calls[j]) = "fail"
         /\ \A k \in (j + 1)..(i - 1) : ~IsGeneration(calls[k]) /\ ~IsJudge(calls[k]))
          => /\ Contains(calls[i].user, calls[j].answer.value.fields.feedback.str)
             /\ Contains(calls[i].user, calls[j].user)

C6_Witness ==
    /\ IsRun
    /\ Len(GenerationCalls) = 3
    /\ Len(JudgeCalls) = 2
    /\ Verdict(JudgeCalls[1]) = "fail"
    /\ JudgeCalls[1].answer # JudgeCalls[2].answer

\* the directory part of a path (up to the last "/") and its file name
SlashPositions(filePath) == {i \in 1..Len(filePath) : filePath[i] = "/"}

LastSlash(filePath) ==
    IF SlashPositions(filePath) = {} THEN 0
    ELSE CHOOSE i \in SlashPositions(filePath) : \A j \in SlashPositions(filePath) : j <= i

DirOf(filePath) == SubSeq(filePath, 1, LastSlash(filePath))

FileNameOf(filePath) == SubSeq(filePath, LastSlash(filePath) + 1, Len(filePath))

\* base name and extension of a file name: around its last ".", the whole name
\* and no extension when it has none
DotPositions(name) == {i \in 1..Len(name) : name[i] = "."}

LastDot(name) ==
    IF DotPositions(name) = {} THEN Len(name) + 1
    ELSE CHOOSE i \in DotPositions(name) : \A j \in DotPositions(name) : j <= i

BaseOf(name) == SubSeq(name, 1, LastDot(name) - 1)

ExtOf(name) == SubSeq(name, LastDot(name) + 1, Len(name))

SiblingPath(filePath, f) ==
    DirOf(filePath) \o BaseOf(FileNameOf(filePath)) \o << Suffix(f), "." >>
        \o ExtOf(FileNameOf(filePath))

\* the path names a file: its file name is not empty, ".", or ".."
NamesFile(filePath) == \E i \in 1..Len(FileNameOf(filePath)) : FileNameOf(filePath)[i] = "a"

\* C7 as stated: writeTextFile writes to <basename>_<suffix>.<ext> in the
\* directory of the input path, for every input path.
C7_OutputIsSibling ==
    (harness /\ pc = "wrote" /\ NamesFile(input.filePath))
        => returned.written.flPath = SiblingPath(input.filePath, flow)

\* a string with every surrogate that has no partner replaced by U+FFFD
RECURSIVE ToWellFormed(_)
ToWellFormed(s) ==
    IF Len(s) = 0 THEN << >>
    ELSE IF Len(s) >= 2 /\ s[1] = "HI" /\ s[2] = "LO"
         THEN << "HI", "LO" >> \o ToWellFormed(SubSeq(s, 3, Len(s)))
    ELSE IF s[1] \in {"HI", "LO"} THEN << "FFFD" >> \o ToWellFormed(Tail(s))
    ELSE << s[1] >> \o ToWellFormed(Tail(s))

\* the writing handler has just written the file
WritingWrote ==
    /\ IsRun
    /\ pending.type = "writingEvent"
    /\ pending'.type = "resultEvent"
    /\ Last(calls').ok

\* C8 as stated: reading the written file back returns exactly the content
\* given to writeTextFile, and in a run the content of the writingEvent.
C8_ReadBackIsContent ==
    /\ [](harness /\ pc = "read" => returned.read.content = input.content)
    /\ [][WritingWrote =>
            Utf8Decode(fs'[DerivePath(state.filePath, flow)]) = pending.data.content]_vars

\* C8 amended: reading the written file back returns the content with every
\* unpaired surrogate replaced by U+FFFD, hence exactly the content when it is
\* well-formed UTF-16.
C8_ReadBackIsWellFormedContent ==
    /\ [](harness /\ pc = "read" =>
            /\ returned.read.content = ToWellFormed(input.content)
            /\ ToWellFormed(input.content) = input.content
                 => returned.read.content = input.content)
    /\ [][WritingWrote =>
            Utf8Decode(fs'[DerivePath(state.filePath, flow)])
                = ToWellFormed(pending.data.content)]_vars

C8_Witness ==
    /\ harness
    /\ pc = "read"
    /\ Len(input.content) = 2
    /\ input.content[1] = "HI"
    /\ returned.read.content = input.content

\* writeFile has failed in the last call made
WriteFailed ==
    /\ Len(calls) > 0
    /\ Last(calls).call = "writeFile"
    /\ ~Last(calls).ok

\* C9: when the write fails writeTextFile returns a string that starts with
\* 'Error creating the edited file:', the resultEvent carries it, and the run
\* goes on to the loop's exit as after a successful write.
C9_WriteFailureIsReported ==
    /\ (harness /\ WriteFailed)
         => /\ pc = "wrote"
            /\ IsPrefix(ErrorText, returned.written.message)
    /\ (IsRun /\ WriteFailed)
         => /\ pc \in {"running", "done"}
            /\ pending.type = "resultEvent"
            /\ IsPrefix(ErrorText, pending.data.message)
            /\ pc = "running" => (stream # << >> /\ Last(stream) = pending)
            /\ pc = "done" => (stream = << >> /\ Last(logged).text = pending.data.message)

C9_Witness ==
    /\ IsRun
    /\ WriteFailed
    /\ pc = "done"

\* the last call made is a chat call whose answer is a message that is not
\* JSON or does not satisfy the schema asked for
AnswerRejected(cs) ==
    /\ Len(cs) > 0
    /\ Last(cs).call = "chat"
    /\ Last(cs).answer.kind = "message"
    /\ ~Parses(SchemaNamed(Last(cs).responseFormat), Last(cs).answer)

\* C10: the handler that receives a malformed answer assigns no field of the
\* session state from it and returns no event, so neither the judge nor the
\* writer sees it; explain renders nothing from a malformed answer.
C10_MalformedAnswerUnused ==
    /\ [][(IsRun /\ Len(calls') > Len(calls) /\ AnswerRejected(calls'))
            => /\ [state' EXCEPT !.numIterations = state.numIterations] = state
               /\ pending' = NoEvent
               /\ stream' = stream
               /\ fs' = fs
               /\ pc' = "crashed"]_vars
    /\ [](IsRun /\ pc = "crashed" => pending = NoEvent)
    /\ []((flow = "explain" /\ AnswerRejected(calls))
            => \A i \in 1..Len(logged) :
                 logged[i].line \in {"Failed to parse message content:",
                                     "Schema validation failed:", "issue"})

C10_Witness ==
    /\ flow = "fix"
    /\ ~harness
    /\ pc = "crashed"
    /\ AnswerRejected(calls)
    /\ Last(calls).responseFormat = "FIX_SCHEMA"
    /\ Last(calls).answer.json
    /\ state.numIterations = 2

\* the fields of the schema that a value fails
FailingFields(schema, value) ==
    IF value.type # "object" THEN DOMAIN schema
    ELSE {k \in DOMAIN schema : FieldIssues(schema, value.fields, k) # {}}

\* the last call made is a chat call whose answer is JSON that the schema
\* asked for rejects
SchemaFailed ==
    /\ Len(calls) > 0
    /\ Last(calls).call = "chat"
    /\ Last(calls).answer.kind = "message"
    /\ Last(calls).answer.json
    /\ ZodIssues(SchemaNamed(Last(calls).responseFormat), Last(calls).answer.value) # {}

\* C11 as stated: in explain, edit and fix, once an answer has failed schema
\* validation, one message per failing field has been logged under 'Schema
\* validation failed:' and the command has not ended in an uncaught exception.
C11_SchemaFailureLoggedPerField ==
    (~harness /\ SchemaFailed /\ pc # "explained")
        => /\ pc # "crashed"
           /\ \E i \in 1..Len(logged) : logged[i].line = "Schema validation failed:"
           /\ Cardinality({i \in 1..Len(logged) : logged[i].line = "issue"})
                = Cardinality(FailingFields(SchemaNamed(Last(calls).responseFormat),
                                            Last(calls).answer.value))

\* explain has ended after an answer that SCHEMA accepts
ExplainedValid ==
    /\ flow = "explain"
    /\ pc = "done"
    /\ Parses(SCHEMA, Last(calls).answer)

\* C12 as stated: explain too submits what it generated to a judge.
C12_ExplainIsJudged == ExplainedValid => \E i \in 1..Len(calls) : IsJudge(calls[i])

\* C12 amended: edit and fix run the generate-judge-retry loop, every judge
\* request carrying the content generated just before it; explain makes one
\* request under SCHEMA and no judge request, and prints the four sections of
\* that one answer when it is valid.
C12_OnlyEditAndFixAreJudged ==
    /\ IsRun =>
         \A i \in 1..Len(calls) :
           IsJudge(calls[i])
             => /\ i > 1
                /\ IsGeneration(calls[i - 1])
                /\ Parses(SchemaNamed(calls[i - 1].responseFormat), calls[i - 1].answer)
                /\ \E k \in {"code_content", "fixed_content"} :
                     /\ k \in DOMAIN calls[i - 1].answer.value.fields
                     /\ calls[i].user = calls[i - 1].answer.value.fields[k].str
    /\ flow = "explain" =>
         /\ \A i \in 1..Len(calls) : ~IsJudge(calls[i]) /\ ~IsGeneration(calls[i])
         /\ Cardinality({i \in 1..Len(calls) : calls[i].call = "chat"}) <= 1
    /\ ExplainedValid =>
         LET fields == Last(calls).answer.value.fields
         IN  /\ [i \in 1..Len(logged) |-> logged[i].line]
                  = << "Code Overview", "Focal Points", "Core Concepts to Learn",
                       "Extra Information" >>
             /\ logged[1].text = fields.code_overview.str
             /\ Len(logged[2].items) = Len(fields.focal_points.items)
             /\ Len(logged[3].items) = Len(fields.core_concepts_to_learn.items)
             /\ logged[4].text = fields.extra_information.str

C12_Witness ==
    /\ ExplainedValid
    /\ Len(logged) = 4
    /\ logged[2].items = << << "p1" >>, << "p2" >> >>
    /\ Len(calls) = 2

\* a handler has run in this step
HandlerStep == IsRun /\ pc = "running" /\ queue' # queue

\* the requests made in this step
NewCalls == SubSeq(calls', Len(calls) + 1, Len(calls'))

\* C13 as stated: at most one event awaits handling, and every handler consumes
\* one event and emits exactly one.
C13_EveryHandlerEmitsOne ==
    /\ [](IsRun => Len(queue) <= 1)
    /\ [][HandlerStep =>
            /\ Len(queue) = 1
            /\ Len(queue') = 1
            /\ Len(stream') = Len(stream) + 1]_vars

\* C13 amended: at most one event awaits handling; a handler consumes one event
\* and, when it returns, emits exactly one, which is delivered to the stream;
\* when it throws it emits none and no handler runs after it.  Requests are
\* made only by the handler of the one pending event, one after the other: the
\* file is read, and has answered, before the model is asked.
C13_SingleSequence ==
    /\ [](IsRun => Len(queue) <= 1)
    /\ [](IsRun /\ pc = "crashed" => queue = << >>)
    /\ [][HandlerStep =>
            /\ Len(queue) = 1
            /\ \/ /\ pc' = "crashed"
                  /\ queue' = << >>
                  /\ stream' = stream
               \/ /\ pc' = "running"
                  /\ Len(queue') = 1
                  /\ stream' = Append(stream, Head(queue'))]_vars
    /\ [][(IsRun /\ calls' # calls) =>
            /\ HandlerStep
            /\ Len(NewCalls) <= 2
            /\ Len(NewCalls) = 2 =>
                  /\ NewCalls[1].call = "readFile"
                  /\ ~NewCalls[1].threw
                  /\ NewCalls[2].call = "chat"]_vars

C13_Witness ==
    /\ IsRun
    /\ Len(queue) = 1
    /\ pending.type = "resultEvent"
    /\ Len(JudgeCalls) = 2
    /\ Len(stream) = 2

\* the code-generation requests whose answer was accepted
CompletedGenerations ==
    SelectSeq(GenerationCalls,
              LAMBDA c : Parses(SchemaNamed(c.responseFormat), c.answer))

\* C14: in a run of edit or fix maxIterations is 3; numIterations is 0 at the
\* start, never decreases, is never above maxIterations + 1, and counts the
\* code-generation rounds: in fix those begun, in edit those completed.
C14_IterationCounter ==
    /\ [](IsRun =>
            /\ state.maxIterations = N
            /\ state.numIterations <= state.maxIterations + 1
            /\ pc = "prompted" => state.numIterations = 0
            /\ flow = "fix" => state.numIterations = Len(GenerationCalls)
            /\ flow = "edit" => state.numIterations = Len(CompletedGenerations))
    /\ [][IsRun => state'.numIterations >= state.numIterations]_vars

C14_Witness ==
    /\ flow = "edit"
    /\ ~harness
    /\ state.numIterations = 2
    /\ Len(GenerationCalls) = 3
    /\ pc = "crashed"

\* the command line has dispatched argv
Dispatched == flow = "cli" /\ pc # "shell"

\* C15: a command name and its one-letter alias reach the same handler
\* (explain/x, edit/e, fix/f, info/i); with no command no handler runs and
\* 'You need at least one command before moving on' is reported.
C15_NamesAndAliasesDispatch ==
    Dispatched =>
      /\ \A pair \in {<< "explain", "x" >>, << "edit", "e" >>,
                       << "fix", "f" >>, << "info", "i" >>} :
           (input.argv # << >> /\ input.argv[1] \in {pair[1], pair[2]})
             => /\ returned.handler = pair[1]
                /\ logged = << >>
                /\ pc = "dispatched"
      /\ input.argv = << >>
           => /\ returned.handler = "none"
              /\ pc = "exited"
              /\ logged = << [line |-> "You need at least one command before moving on"] >>

C15_Witness ==
    /\ Dispatched
    /\ input.argv = << "f" >>
    /\ returned.handler = "fix"

\* the record has exactly the fields of the schema, each of the declared type
Conforms(schema, value) ==
    /\ value.type = "object"
    /\ DOMAIN value.fields = DOMAIN schema
    /\ \A k \in DOMAIN schema : value.fields[k].type = schema[k]

\* C16: for CODE_SCHEMA, JUDGING_SCHEMA, ERROR_SCHEMA and FIX_SCHEMA, parsing
\* a record that has exactly the schema's fields with values of the declared
\* types succeeds and returns a record equal to the input, field for field.
C16_ConformingRecordParsesToItself ==
    (flow = "schema" /\ pc = "parsed"
       /\ Conforms(SchemaNamed(input.schema), input.value))
      => /\ ~returned.threw
         /\ DOMAIN returned.data = DOMAIN input.value.fields
         /\ \A k \in DOMAIN input.value.fields :
              IF input.value.fields[k].type = "boolean"
              THEN returned.data[k] = input.value.fields[k].bool
              ELSE returned.data[k] = input.value.fields[k].str

C16_Witness ==
    /\ flow = "schema"
    /\ pc = "parsed"
    /\ input.schema = "JUDGING_SCHEMA"
    /\ Conforms(JUDGING_SCHEMA, input.value)
    /\ ~returned.threw
    /\ returned.data.pass = FALSE
    /\ returned.data.feedback = << "x" >>

\* writeTextFile was called directly and its writeFile succeeded
DirectWriteSucceeded ==
    /\ harness
    /\ pc \in {"wrote", "read"}
    /\ calls[1].call = "writeFile"
    /\ calls[1].ok

\* C17 as stated: the string returned after a successful write is the success
\* message followed by exactly the path that was written, and a file exists at
\* that path.
C17_MessageEndsWithExactPath ==
    DirectWriteSucceeded =>
      /\ returned.written.message = SuccessText(flow) \o calls[1].path
      /\ calls[1].path \in DOMAIN fs

\* C17 amended: the string returned after a successful write is the success
\* message followed by the path that was written: exactly that path in the copy
\* the tests call (for 'a.a': 'a_test.a') and when the terminal has no colours,
\* and that path between the escape codes of green and bold in edit and fix when
\* it has; a file exists at that path.
C17_MessageShowsWrittenPath ==
    DirectWriteSucceeded =>
      LET message == returned.written.message
          written == calls[1].path
      IN  /\ written \in DOMAIN fs
          /\ written = DerivePath(input.filePath, flow)
          /\ (flow = "test" \/ ~isColorSupported)
               => message = SuccessText(flow) \o written
          /\ (flow \in {"edit", "fix"} /\ isColorSupported)
               => message = SuccessText(flow) \o << "ESC[32m", "ESC[1m" >> \o written
                               \o << "ESC[22m", "ESC[39m" >>
          /\ (flow = "test" /\ input.filePath = << "a", ".", "a" >>)
               => message = << "Successfully edited your file! Find the edited version at: ",
                               "a", "_test", ".", "a" >>

C17_Witness ==
    /\ DirectWriteSucceeded
    /\ flow = "test"
    /\ isColorSupported
    /\ input.filePath = << "a", ".", "a" >>
    /\ returned.written.message
         = << "Successfully edited your file! Find the edited version at: ",
              "a", "_test", ".", "a" >>
    /\ << "a", "_test", ".", "a" >> \in DOMAIN fs

\* the content of an accepted answer to a code-generation request
GeneratedBy(c) ==
    IF c.responseFormat = "CODE_SCHEMA"
    THEN c.answer.value.fields.code_content.str
    ELSE c.answer.value.fields.fixed_content.str

\* the writing step is entered because of a pass verdict
WritingOnPass ==
    /\ IsRun
    /\ pending.type = "writingEvent"
    /\ VerdictOnLast = "pass"

\* C18: when the writing step is entered because of a pass verdict, the
\* writingEvent carries the content that was sent to the judge for that verdict,
\* which is the content generated last; between the judge request and the write
\* no generation is made and generatedContent does not change, and what is
\* written is that content.
C18_WrittenIsJudgedContent ==
    /\ [](WritingOnPass =>
            /\ pending.data.content = calls[LastJudge].user
            /\ LastGeneration = LastJudge - 1
            /\ pending.data.content = GeneratedBy(calls[LastGeneration])
            /\ pending.data.content = state.generatedContent)
    /\ [][(IsRun /\ pending.type \in {"judgingEvent", "writingEvent"})
            => /\ state'.generatedContent = state.generatedContent
               /\ GenerationCalls' = GenerationCalls]_vars
    /\ [][(WritingOnPass /\ calls' # calls)
            => /\ Last(calls').call = "writeFile"
               /\ Last(calls').content = calls[LastJudge].user]_vars

C18_Witness ==
    /\ WritingOnPass
    /\ Len(GenerationCalls) = 2
    /\ GeneratedBy(GenerationCalls[1]) = << "x" >>
    /\ pending.data.content = << "HI" >>

\* a generation step fails: the handler of a startEvent or of an
\* errorEvaluationEvent throws
FailedGenerationStep ==
    /\ IsRun
    /\ pc = "running"
    /\ pending.type \in {"startEvent", "errorEvaluationEvent"}
    /\ pc' = "crashed"

\* C19 as stated: a failed generation step leaves the session state, including
\* numIterations, as it was before the step.
C19_FailedStepLeavesState == [][FailedGenerationStep => state' = state]_vars

\* C19 amended: a failed generation step leaves the session state as it was,
\* except that in fix the step that asks for the fixed code has already counted
\* its round: numIterations is one higher, every other field is as before.
C19_FailedStepLeavesStateButCount ==
    [][FailedGenerationStep =>
         IF flow = "fix" /\ pending.type = "errorEvaluationEvent"
         THEN state' = [state EXCEPT !.numIterations = @ + 1]
         ELSE state' = state]_vars

C19_Witness ==
    /\ flow = "fix"
    /\ ~harness
    /\ pc = "crashed"
    /\ Last(calls).call = "chat"
    /\ Last(calls).responseFormat = "FIX_SCHEMA"
    /\ Last(calls).answer.kind = "throw"
    /\ state.numIterations = 3
    /\ Len(CompletedGenerations) = 2

\* C20 as stated: in every round the judge's prompt carries the feature or
\* error and the details as the user gave them at the start of the run.
C20_JudgeSeesUserCriteria ==
    IsRun =>
      \A i \in 1..Len(calls) :
        IsJudge(calls[i])
          => /\ Contains(calls[i].system, input.feature)
             /\ Contains(calls[i].system, input.details)

\* the write requests made so far
WriteCalls == SelectSeq(calls, LAMBDA c : c.call = "writeFile")

\* C21: in a run of edit or fix at most one file write is attempted and at most
\* one resultEvent is emitted; the resultEvent is returned by the handler of the
\* writingEvent, right after the write, and no request is made after it.
C21_OneWriteThenResult ==
    /\ [](IsRun =>
            /\ Len(WriteCalls) <= 1
            /\ Cardinality({i \in 1..Len(stream) : stream[i].type = "resultEvent"}) <= 1
            /\ pending.type = "resultEvent"
                 => (Len(WriteCalls) = 1 /\ Last(calls).call = "writeFile")
            /\ Len(WriteCalls) = 1
                 => (Last(calls).call = "writeFile" /\ pending.type = "resultEvent"))
    /\ [][(IsRun /\ pending'.type = "resultEvent" /\ pending' # pending)
            => /\ pending.type = "writingEvent"
               /\ Len(WriteCalls') = Len(WriteCalls) + 1]_vars
    /\ [][(IsRun /\ pending.type = "resultEvent")
            => (queue' = queue /\ calls' = calls /\ fs' = fs)]_vars

C21_Witness ==
    /\ IsRun
    /\ pc = "done"
    /\ stream = << >>
    /\ Len(WriteCalls) = 1
    /\ Len(GenerationCalls) = 3
    /\ pending.type = "resultEvent"

\* C22: the path writeTextFile derives differs from the path it is given, so a
\* run of edit or fix never writes to the file it was asked to edit or fix; that
\* file keeps its bytes, and every round reads that same file.
C22_InputFileUntouched ==
    /\ []((harness /\ pc \in {"wrote", "read"} /\ flow \in {"edit", "fix", "test"})
            => /\ returned.written.flPath # input.filePath
               /\ Len(returned.written.flPath) > Len(input.filePath)
               /\ calls[1].path # input.filePath
               /\ input.filePath \notin DOMAIN fs)
    /\ [](IsRun =>
            /\ \A i \in 1..Len(calls) :
                 /\ calls[i].call = "writeFile" => calls[i].path # input.filePath
                 /\ calls[i].call = "readFile" => calls[i].path = input.filePath
            /\ fs[input.filePath] = FileBytes)
    /\ [][IsRun => fs'[input.filePath] = fs[input.filePath]]_vars

C22_Witness ==
    /\ IsRun
    /\ Len(WriteCalls) = 1
    /\ WriteCalls[1].ok
    /\ Len(GenerationCalls) = 2
    /\ DOMAIN fs = {input.filePath, DerivePath(input.filePath, flow)}
    /\ fs[input.filePath] # fs[DerivePath(input.filePath, flow)]

\* a generating handler has returned in this step, in the round whose counter
\* exceeds maxIterations
GeneratedAboveCap ==
    /\ IsRun
    /\ Len(GenerationCalls') = Len(GenerationCalls) + 1
    /\ pc' = "running"
    /\ state'.numIterations > state'.maxIterations

\* C23: in a run of edit or fix the judge is requested at most N = 3 times; the
\* content generated in the round in which numIterations exceeds maxIterations
\* goes to the writer in a writingEvent and no judge request is made for it.
C23_AtMostThreeJudgments ==
    /\ [](IsRun => Len(JudgeCalls) <= N)
    /\ [](IsRun /\ state.numIterations > state.maxIterations
            => /\ Len(JudgeCalls) = N
               /\ LastJudge < LastGeneration)
    /\ [][GeneratedAboveCap =>
            /\ pending'.type = "writingEvent"
            /\ pending'.data.content = GeneratedBy(Last(calls'))
            /\ JudgeCalls' = JudgeCalls]_vars

C23_Witness ==
    /\ flow = "fix"
    /\ ~harness
    /\ pc = "done"
    /\ Len(JudgeCalls) = N
    /\ Len(GenerationCalls) = N + 1
    /\ Len(WriteCalls) = 1
    /\ WriteCalls[1].content = GeneratedBy(Last(GenerationCalls))
    /\ WriteCalls[1].content # JudgeCalls[N].user

\* the read requests that failed
FailedReads == {i \in 1..Len(calls) : calls[i].call = "readFile" /\ calls[i].threw}

\* C24: in every round of edit and fix the target file is read, successfully,
\* before any model request of the round; when the read fails nothing more is
\* requested: no model request, no file write, and no resultEvent.
C24_ReadFirstOrStop ==
    IsRun =>
      /\ \A i \in 1..Len(calls) :
           /\ (calls[i].call = "chat"
                  /\ calls[i].responseFormat \in {"CODE_SCHEMA", "ERROR_SCHEMA"})
                => /\ i > 1
                   /\ calls[i - 1].call = "readFile"
                   /\ ~calls[i - 1].threw
                   /\ calls[i - 1].path = input.filePath
           /\ (calls[i].call = "chat" /\ calls[i].responseFormat = "FIX_SCHEMA")
                => (i > 1 /\ calls[i - 1].call = "chat"
                      /\ calls[i - 1].responseFormat = "ERROR_SCHEMA")
           /\ IsJudge(calls[i]) => (i > 1 /\ IsGeneration(calls[i - 1]))
      /\ FailedReads # {}
           => /\ FailedReads = {Len(calls)}
              /\ pc = "crashed"
              /\ queue = << >>
              /\ WriteCalls = << >>
              /\ DOMAIN fs = {input.filePath}
              /\ \A i \in 1..Len(stream) : stream[i].type # "resultEvent"

C24_Witness ==
    /\ IsRun
    /\ FailedReads = {Len(calls)}
    /\ Len(GenerationCalls) = 2
    /\ stream = << >>

\* the 'Started round k' lines printed so far
StartedRounds == SelectSeq(logged, LAMBDA l : l.line = "Started round")

\* the startEvents sent so far: the one of runWorkflow, and one for each fail
\* verdict whose judgingEvent has been handled
StartEventsSent ==
    IF pc = "prompted" THEN 0
    ELSE 1 + Cardinality({i \in 1..Len(JudgeCalls) : Verdict(JudgeCalls[i]) = "fail"})
           - (IF pending.type = "judgingEvent" /\ ~pending.data.pass THEN 1 ELSE 0)

\* C25: the rounds printed as 'Started round k' are 1, 2, 3, ... in order with
\* no gap and no repeat, one for each startEvent the loop has read, the first
\* being the one runWorkflow sent, and k is never above N + 1 = 4.
C25_RoundsCountUp ==
    IsRun =>
      /\ \A i \in 1..Len(StartedRounds) : StartedRounds[i].round = i
      /\ Len(StartedRounds) <= N + 1
      /\ iteration = Len(StartedRounds)
      /\ Len(StartedRounds)
            + Cardinality({i \in 1..Len(stream) : stream[i].type = "startEvent"})
           = StartEventsSent

C25_Witness ==
    /\ IsRun
    /\ pc = "done"
    /\ Len(StartedRounds) = N + 1
    /\ StartedRounds[N + 1].round = N + 1

====
